---- MODULE Spec2Model ----
(***************************************************************************)
(* The data-access layer of the library application: Repository            *)
(* (src/repository.py) over the relational store, and the record types of  *)
(* src/model.py.  A table is a set of rows, a row is a tuple in column     *)
(* order, and every Repository method is one action: the SQL statement it  *)
(* sends, the rows the storage yields (in an order the storage chooses,    *)
(* as no query has an ORDER BY), the positional mapping to records and     *)
(* the except clause.  db.execute_query / db.fetch_results either run the  *)
(* statement or raise; which one happens is an input of the action.        *)
(* Above it, the controllers of src/controller.py, each over a Repository  *)
(* of its own, and the query tab of src/view/query_view.py.                *)
(***************************************************************************)
EXTENDS Integers, Sequences, FiniteSets, TLC

VARIABLES
    book,        \* table book: <<book_id, title, isbn, pub_year, genre_id, publisher_id>>
    nextId,      \* AUTO_INCREMENT counter of book.book_id
    author,      \* table author: <<author_id, name>>
    book_author, \* table book_author: <<book_id, author_id>>
    publisher,   \* table publisher: <<publisher_id, name, address, phone, email>>
    members,     \* table members: <<member_id, first_name, last_name, address, email, membership_date>>
    loan,        \* table loan: <<loan_id, copy_id, member_id, staff_id, librarian_id, issue_date, due_date, return_date>>
    book_copy,   \* table book_copy: <<copy_id, book_id>>
    call,        \* the last Repository call: its name, arguments and outcome
    refetch,     \* history: the write that returned normally right before this list_book_by_name
    deleted,     \* history: the ids delete_book_by_id has deleted
    objects,     \* per controller: its connection, its Repository, itself
    event,       \* the last controller or query-tab call: its name, arguments and outcome
    result_table \* QueryTab.result_table: its header labels and its rows of cell texts

tables == <<book, nextId, author, book_author, publisher, members, loan, book_copy>>
appVars == <<objects, event, result_table>>
vars == <<book, nextId, author, book_author, publisher, members, loan, book_copy,
          call, refetch, deleted, objects, event, result_table>>

\* ------------------------------------------------------------------ bounds
\* The largest book_id the storage assigns in a run.
MaxBookId == 2

\* ------------------------------------------------------- values of a run
\* The (title, isbn, pub_year, genre_id, publisher_id) a caller gives a book:
\* two values of every field, and two books that differ in all but the title.
BookValues ==
    {<<"t1", "i1", 2000, 1, 7>>, <<"t1", "i2", 2001, 2, 8>>,
     <<"t2", "i1", 2001, 1, 8>>, <<"t2", "i2", 2000, 2, 7>>}
\* The titles and author names a caller asks for.
Titles == {"t1", "t2"}
AuthorNames == {"A", "B"}
\* The ids a caller passes to update_book and delete_book_by_id.
BookIds == 1..MaxBookId
\* The Book.id a caller passes to add_book (0 is the controller's placeholder).
CallerIds == {0, 1}

\* ------------------------------------------------------------- src/model.py
\* Book(*args): the dataclass takes exactly its six fields, in this order;
\* any other number of positional arguments is a TypeError.
BookArgsOk(args) == Len(args) = 6

Book(args) ==
    [id |-> args[1], title |-> args[2], isbn |-> args[3],
     pub_year |-> args[4], genre_id |-> args[5], publisher_id |-> args[6]]

Publisher(args) ==
    [id |-> args[1], name |-> args[2], address |-> args[3],
     phone |-> args[4], email |-> args[5]]

Member(args) ==
    [id |-> args[1], first_name |-> args[2], last_name |-> args[3],
     address |-> args[4], email |-> args[5], membership_date |-> args[6]]

\* The Book objects callers build.
CallerBooks(ids) ==
    {Book(<<i, v[1], v[2], v[3], v[4], v[5]>>) : i \in ids, v \in BookValues}

\* ------------------------------------------------------------ the storage
\* The orders in which the storage may yield the rows of a result set.
Orderings(S) ==
    {s \in [1..Cardinality(S) -> S] : \A x \in S : \E i \in DOMAIN s : s[i] = x}

\* The outcome of one call, as the caller sees it and as the storage saw it.
\*   failed:  one flag per statement the call sent, in order: whether
\*            db.execute_query / db.fetch_results raised on it
\*   raised:  the exception that reached the caller ("none": returned normally)
\*   rows:    what the last fetch_results returned (<<>> when it raised)
\*   ret:     the return value; a list is a sequence, Optional[x] is <<>> or <<x>>
Outcome(op, args, failed, raised, rows, ret) ==
    [op |-> op, args |-> args, failed |-> failed, raised |-> raised,
     rows |-> rows, ret |-> ret]

WriteOps == {"add_book", "update_book", "delete_book_by_id"}
ReadOps ==
    {"fetchall_books", "list_book_by_name", "get_books_by_author",
     "find_books_by_author_name", "get_publisher", "get_all_members", "list_all_loan",
     "list_all_members_by_book", "list_members_borrowed_at_least_one_book"}

\* The last call, when it was a write that returned normally.
NoWrite == [op |-> "none", args |-> <<>>]
WriteJustDone ==
    IF call.op \in WriteOps /\ call.raised = "none"
       THEN [op |-> call.op, args |-> call.args] ELSE NoWrite

\* ------------------------------------------------- Repository: the writes
\* INSERT INTO book (title, isbn, pub_year, genre_id, publisher_id) VALUES (...)
\* with params (book.title, book.isbn, book.pub_year, book.genre_id,
\* book.publisher_id); book_id is the storage's next AUTO_INCREMENT value.
InsertBook_SwappedParams(b, id) ==
    book \cup {<<id, b.title, b.isbn, b.pub_year, b.publisher_id, b.genre_id>>}

InsertBook(b, id) ==
    book \cup {<<id, b.title, b.isbn, b.pub_year, b.genre_id, b.publisher_id>>}

DeleteBook_NotCommitted(id) == book

\* DELETE FROM book WHERE book_id = %s
DeleteBook(id) == {r \in book : r[1] # id}

UpdateBook_KeepsGenre(b) ==
    {IF r[1] = b.id
        THEN <<r[1], b.title, b.isbn, b.pub_year, r[5], b.publisher_id>>
        ELSE r : r \in book}

UpdateBook_NoWhere(b) ==
    {<<r[1], b.title, b.isbn, b.pub_year, b.genre_id, b.publisher_id>> : r \in book}

\* UPDATE book SET title, isbn, pub_year, genre_id, publisher_id WHERE book_id = %s
UpdateBook(b) ==
    {IF r[1] = b.id
        THEN <<r[1], b.title, b.isbn, b.pub_year, b.genre_id, b.publisher_id>>
        ELSE r : r \in book}

WriteRaises_Swallowed(failed) == "none"

\* except Exception: raise RuntimeError(...) of the three write methods.
WriteRaises(failed) == IF failed THEN "RuntimeError" ELSE "none"

add_book(b, failed) ==
    /\ nextId <= MaxBookId
    /\ IF failed
          THEN UNCHANGED <<book, nextId, deleted>>
          ELSE /\ book' = InsertBook(b, nextId)
               /\ nextId' = nextId + 1
               /\ deleted' = deleted \ {nextId}
    /\ call' = Outcome("add_book", <<b>>, <<failed>>, WriteRaises(failed), <<>>, <<>>)
    /\ refetch' = NoWrite
    /\ UNCHANGED <<author, book_author, publisher, members, loan, book_copy>>

delete_book_by_id(id, failed) ==
    /\ IF failed
          THEN UNCHANGED <<book, deleted>>
          ELSE /\ book' = DeleteBook(id)
               /\ deleted' = deleted \cup {id}
    /\ call' = Outcome("delete_book_by_id", <<id>>, <<failed>>, WriteRaises(failed), <<>>, <<>>)
    /\ refetch' = NoWrite
    /\ UNCHANGED <<nextId, author, book_author, publisher, members, loan, book_copy>>

update_book(b, failed) ==
    /\ book' = IF failed THEN book ELSE UpdateBook(b)
    /\ call' = Outcome("update_book", <<b>>, <<failed>>, WriteRaises(failed), <<>>, <<>>)
    /\ refetch' = NoWrite
    /\ UNCHANGED <<nextId, author, book_author, publisher, members, loan, book_copy, deleted>>

\* -------------------------------------------------- Repository: the reads
SelectBookByTitle_NoWhere(title) == book

\* SELECT book_id, title, isbn, pub_year, genre_id, publisher_id FROM book WHERE title = %s
SelectBookByTitle(title) == {r \in book : r[2] = title}

FirstBook_Last(result) == IF result # <<>> THEN <<Book(result[Len(result)])>> ELSE <<>>

\* return Book(*result[0]) if result else None
FirstBook(result) == IF result # <<>> THEN <<Book(result[1])>> ELSE <<>>

\* What a read method returns.  A failing fetch_results or a TypeError of the
\* row mapping lands in except Exception, which returns the empty result.
ReadReturn(failed, mapped, value, empty) ==
    IF failed \/ ~mapped THEN empty ELSE value

ReadRaises_Reraised(failed) == IF failed THEN "RuntimeError" ELSE "none"

\* No read method re-raises.
ReadRaises(failed) == "none"

list_book_by_name(title, failed) ==
    /\ \E result \in Orderings(SelectBookByTitle(title)) :
          call' = Outcome("list_book_by_name", <<title>>, <<failed>>, ReadRaises(failed),
                          IF failed THEN <<>> ELSE result,
                          ReadReturn(failed, TRUE, FirstBook(result), <<>>))
    /\ refetch' = WriteJustDone
    /\ UNCHANGED <<tables, deleted>>

\* SELECT b.book_id, b.title, a.name AS author, b.isbn, b.pub_year, b.genre_id,
\* b.publisher_id FROM book b LEFT JOIN book_author ba ON b.book_id = ba.book_id
\* LEFT JOIN author a ON ba.author_id = a.author_id
\* A LEFT JOIN keeps a left row without a match once, with NULLs on the right.
NoRow == <<>>
Null == "NULL"

BookLeftJoinAuthor ==
    LET j1 == {x \in book \X book_author : x[1][1] = x[2][1]}
              \cup {<<b, NoRow>> : b \in {x \in book : \A y \in book_author : y[1] # x[1]}}
        Match(j, a) == j[2] # NoRow /\ j[2][2] = a[1]
    IN  {<<x[1][1], x[1][2], x[2]>> : x \in {y \in j1 \X author : Match(y[1], y[2])}}
        \cup {<<j[1], j[2], NoRow>> : j \in {x \in j1 : \A a \in author : ~Match(x, a)}}

FetchAllBooksRow(j) ==
    <<j[1][1], j[1][2], IF j[3] = NoRow THEN Null ELSE j[3][2],
      j[1][3], j[1][4], j[1][5], j[1][6]>>

\* Book(row[0], row[1], row[2], row[3], row[4], row[5], row[6])
FetchAllBooksArgs(row) == <<row[1], row[2], row[3], row[4], row[5], row[6], row[7]>>

fetchall_books(failed) ==
    /\ \E joined \in Orderings(BookLeftJoinAuthor) :
          LET results == [i \in DOMAIN joined |-> FetchAllBooksRow(joined[i])]
              mapped == \A i \in DOMAIN results : BookArgsOk(FetchAllBooksArgs(results[i]))
              value == IF mapped THEN [i \in DOMAIN results |-> Book(FetchAllBooksArgs(results[i]))] ELSE <<>>
          IN  call' = Outcome("fetchall_books", <<>>, <<failed>>, ReadRaises(failed),
                              IF failed THEN <<>> ELSE results,
                              ReadReturn(failed, mapped, value, <<>>))
    /\ refetch' = NoWrite
    /\ UNCHANGED <<tables, deleted>>

\* SELECT b.book_id, b.title, b.isbn, b.pub_year, b.genre_id, b.publisher_id
\* FROM book b JOIN book_author ba ON b.book_id = ba.book_id
\* JOIN author a ON ba.author_id = a.author_id WHERE a.name = %s
BookJoinAuthor(author_name) ==
    {x \in book \X book_author \X author :
        x[1][1] = x[2][1] /\ x[2][2] = x[3][1] /\ x[3][2] = author_name}

BookColumns(j) == j[1]

get_books_by_author(author_name, failed) ==
    /\ \E joined \in Orderings(BookJoinAuthor(author_name)) :
          LET results == [i \in DOMAIN joined |-> BookColumns(joined[i])]
          IN  call' = Outcome("get_books_by_author", <<author_name>>, <<failed>>,
                              ReadRaises(failed),
                              IF failed THEN <<>> ELSE results,
                              ReadReturn(failed, TRUE, [i \in DOMAIN results |-> Book(results[i])], <<>>))
    /\ refetch' = NoWrite
    /\ UNCHANGED <<tables, deleted>>

\* ... LIMIT 1
Limit1(seq) == IF seq = <<>> THEN <<>> ELSE <<seq[1]>>

find_books_by_author_name(author_name, failed) ==
    /\ \E joined \in Orderings(BookJoinAuthor(author_name)) :
          LET result == Limit1([i \in DOMAIN joined |-> BookColumns(joined[i])])
          IN  call' = Outcome("find_books_by_author_name", <<author_name>>, <<failed>>,
                              ReadRaises(failed),
                              IF failed THEN <<>> ELSE result,
                              ReadReturn(failed, TRUE, FirstBook(result), <<>>))
    /\ refetch' = NoWrite
    /\ UNCHANGED <<tables, deleted>>

\* SELECT publisher_id, name, address, phone, email FROM publisher
get_publisher(failed) ==
    /\ \E results \in Orderings(publisher) :
          call' = Outcome("get_publisher", <<>>, <<failed>>, ReadRaises(failed),
                          IF failed THEN <<>> ELSE results,
                          ReadReturn(failed, TRUE, [i \in DOMAIN results |-> Publisher(results[i])], <<>>))
    /\ refetch' = NoWrite
    /\ UNCHANGED <<tables, deleted>>

\* SELECT member_id, first_name, last_name, address, email, membership_date FROM members
get_all_members(failed) ==
    /\ \E results \in Orderings(members) :
          call' = Outcome("get_all_members", <<>>, <<failed>>, ReadRaises(failed),
                          IF failed THEN <<>> ELSE results,
                          ReadReturn(failed, TRUE, [i \in DOMAIN results |-> Member(results[i])], <<>>))
    /\ refetch' = NoWrite
    /\ UNCHANGED <<tables, deleted>>

\* SELECT loan_id, copy_id, member_id, staff_id, librarian_id, issue_date,
\* due_date, return_date FROM loan
list_all_loan(failed) ==
    /\ \E results \in Orderings(loan) :
          call' = Outcome("list_all_loan", <<>>, <<failed>>, ReadRaises(failed),
                          IF failed THEN <<>> ELSE results,
                          ReadReturn(failed, TRUE, results, <<>>))
    /\ refetch' = NoWrite
    /\ UNCHANGED <<tables, deleted>>

MemberLoanOfBook_NoWhere(book_id) ==
    {x \in members \X loan \X book_copy \X book :
        x[1][1] = x[2][3] /\ x[2][2] = x[3][1] /\ x[3][2] = x[4][1]}

\* SELECT m.first_name, m.last_name, b.title, l.issue_date, l.due_date, l.return_date
\* FROM members m JOIN loan l ON m.member_id = l.member_id
\* JOIN book_copy bc ON l.copy_id = bc.copy_id JOIN book b ON bc.book_id = b.book_id
\* WHERE b.book_id = %s
MemberLoanOfBook(book_id) ==
    {x \in members \X loan \X book_copy \X book :
        x[1][1] = x[2][3] /\ x[2][2] = x[3][1] /\ x[3][2] = x[4][1] /\ x[4][1] = book_id}

MemberLoanRow(j) == <<j[1][2], j[1][3], j[4][2], j[2][6], j[2][7], j[2][8]>>

\* book = self.list_book_by_name(book_name); if not book: return []
\* The second statement is sent only when the first one resolved the title.
list_all_members_by_book(book_name, failed1, failed2) ==
    /\ \E result \in Orderings(SelectBookByTitle(book_name)) :
          LET found == ReadReturn(failed1, TRUE, FirstBook(result), <<>>)
          IN  IF found = <<>>
                 THEN call' = Outcome("list_all_members_by_book", <<book_name>>,
                                      <<failed1>>, ReadRaises(failed1),
                                      IF failed1 THEN <<>> ELSE result, <<>>)
                 ELSE \E joined \in Orderings(MemberLoanOfBook(found[1].id)) :
                         LET results == [i \in DOMAIN joined |-> MemberLoanRow(joined[i])]
                         IN  call' = Outcome("list_all_members_by_book", <<book_name>>,
                                             <<failed1, failed2>>, ReadRaises(failed2),
                                             IF failed2 THEN <<>> ELSE results,
                                             ReadReturn(failed2, TRUE, results, <<>>))
    /\ refetch' = NoWrite
    /\ UNCHANGED <<tables, deleted>>

DistinctBorrowers_LeftJoin == {<<m[1], m[2], m[3]>> : m \in members}

\* SELECT DISTINCT m.member_id, m.first_name, m.last_name
\* FROM members m JOIN loan l ON m.member_id = l.member_id
DistinctBorrowers ==
    {<<x[1][1], x[1][2], x[1][3]>> : x \in {y \in members \X loan : y[1][1] = y[2][3]}}

list_members_borrowed_at_least_one_book(failed) ==
    /\ \E results \in Orderings(DistinctBorrowers) :
          call' = Outcome("list_members_borrowed_at_least_one_book", <<>>, <<failed>>,
                          ReadRaises(failed),
                          IF failed THEN <<>> ELSE results,
                          ReadReturn(failed, TRUE, results, <<>>))
    /\ refetch' = NoWrite
    /\ UNCHANGED <<tables, deleted>>

\* ---------------------------------------------------------- the store at start
\* The repository writes only the table book; the other tables hold what the
\* library put there.  No foreign key is assumed: a row of book_author or
\* book_copy may name a book that is not (or no longer) in book.
SeedBook1 == <<1, "t1", "i1", 2000, 1, 7>>
SeedBook2 == <<2, "t1", "i2", 2001, 2, 8>>
SeedBook3 == <<3, "t2", "i1", 2001, 1, 8>>
SeedBooks == {r \in {SeedBook1, SeedBook2, SeedBook3} : r[1] <= MaxBookId}

Loan1 == <<1, 1, 1, 1, 1, "d1", "d2", "d3">>
Loan2 == <<2, 2, 1, 1, 1, "d1", "d2", "d3">>
Loan3 == <<3, 1, 2, 1, 1, "d4", "d5", "d6">>
Loan4 == <<4, 3, 2, 1, 1, "d1", "d5", "d3">>
StoreBooks == {SeedBook1, SeedBook2, SeedBook3}

NoCall == Outcome("none", <<>>, <<>>, "none", <<>>, <<>>)

\* ------------------------------------------------------ src/controller.py
Controllers == {"BookController", "QueryController"}

\* What exists of a controller: the state of the connection of its Repository
\* ("none", "open", "failed"), whether the Repository and the controller came
\* into existence, and (history) whether a statement was ever sent on the
\* connection.
Unbuilt == [conn |-> "none", repository |-> FALSE, controller |-> "unbuilt", sent |-> FALSE]

\* The outcome of a controller or query-tab call.
\*   raised: the exception that reached the caller ("none": returned normally)
\*   calls:  how many calls it made to the layer below
\*   dialog: the message box it showed ("none", "warning", "critical")
\*   ret:    the return value, as in Outcome
AppOutcome(op, args, raised, calls, dialog, ret) ==
    [op |-> op, args |-> args, raised |-> raised, calls |-> calls,
     dialog |-> dialog, ret |-> ret]

NoEvent == AppOutcome("none", <<>>, "none", 0, "none", <<>>)

\* QTableWidget(): no columns, no rows.
EmptyTable == [headers |-> <<>>, rows |-> <<>>]

ConnectRaises_Swallowed(connectFails) == "none"

\* Repository.__init__: try: self.db.connect() except Exception: raise RuntimeError(...)
ConnectRaises(connectFails) == IF connectFails THEN "RuntimeError" ELSE "none"

\* self.repository = Repository(): the controller exists only when
\* Repository() returned; an exception of it leaves __init__ at once.
Construct(c, connectFails) ==
    LET raised == ConnectRaises(connectFails)
    IN  /\ objects[c].controller = "unbuilt"
        /\ objects' = [objects EXCEPT ![c] =
                          [conn |-> IF connectFails THEN "failed" ELSE "open",
                           repository |-> raised = "none",
                           controller |-> IF raised = "none" THEN "built" ELSE "aborted",
                           sent |-> FALSE]]
        /\ event' = AppOutcome(c \o ".__init__", <<>>, raised, 1, "none", <<>>)
        /\ UNCHANGED <<tables, call, refetch, deleted, result_table>>

BookController_init(connectFails) == Construct("BookController", connectFails)

QueryController_init(connectFails) == Construct("QueryController", connectFails)

InitFixed ==
    /\ author = {<<1, "A">>, <<2, "B">>}
    /\ publisher = {<<7, "P", "pa", "pp", "pe">>, <<8, "Q", "qa", "qp", "qe">>}
    /\ members = {<<1, "Ann", "Lee", "a1", "e1", "m1">>,
                  <<2, "Bob", "Ray", "a2", "e2", "m2">>}
    /\ book_copy = {<<1, 1>>, <<2, 2>>, <<3, 3>>}
    /\ call = NoCall
    /\ refetch = NoWrite
    /\ deleted = {}
    /\ objects = [c \in Controllers |-> Unbuilt]
    /\ event = NoEvent
    /\ result_table = EmptyTable

\* A library whose books were all entered in order and are still there.
Init ==
    /\ book \in {{r \in SeedBooks : r[1] <= n} : n \in 0..MaxBookId}
    /\ nextId = Cardinality(book) + 1
    /\ book_author = {<<1, 1>>}
    /\ loan = {Loan1, Loan2}
    /\ InitFixed

\* The keyword arguments Book(...) accepts: exactly the fields of the
\* dataclass; any other keyword is a TypeError.
BookFields == {"id", "title", "isbn", "pub_year", "genre_id", "publisher_id"}

BookKwargsOk(kwargs) == DOMAIN kwargs = BookFields

\* except Exception: raise RuntimeError(...) around the repository call of
\* BookController.add_book and update_book.
ControllerRaises(raised) == IF raised # "none" THEN "RuntimeError" ELSE "none"

Sent(c) == [objects EXCEPT ![c].sent = TRUE]

\* Book(id=0, title=title, author=author, publisher_id=publisher, isbn=isbn,
\*      year_published=year_published, genre_id=1) is built before the try
\* block: a TypeError of it reaches the caller as it is.
BookController_add_book(title, author_arg, publisher_arg, isbn, year_published, failed) ==
    LET kwargs == [id |-> 0, title |-> title, author |-> author_arg,
                   publisher_id |-> publisher_arg, isbn |-> isbn,
                   year_published |-> year_published, genre_id |-> 1]
        args == <<title, author_arg, publisher_arg, isbn, year_published>>
    IN  /\ objects["BookController"].controller = "built"
        /\ IF BookKwargsOk(kwargs)
              THEN /\ add_book(kwargs, failed)
                   /\ objects' = Sent("BookController")
                   /\ event' = AppOutcome("BookController.add_book", args,
                                          ControllerRaises(call'.raised), 1, "none", <<>>)
              ELSE /\ event' = AppOutcome("BookController.add_book", args,
                                          "TypeError", 0, "none", <<>>)
                   /\ UNCHANGED <<tables, call, refetch, deleted, objects>>
        /\ UNCHANGED result_table

\* Book(id=bid, title=title, author=author, publisher_id=publisher_id,
\*      isbn=isbn, year_published=year, genre_id=1), before the try block.
BookController_update_book(bid, title, author_arg, publisher_id, isbn, year, failed) ==
    LET kwargs == [id |-> bid, title |-> title, author |-> author_arg,
                   publisher_id |-> publisher_id, isbn |-> isbn,
                   year_published |-> year, genre_id |-> 1]
        args == <<bid, title, author_arg, publisher_id, isbn, year>>
    IN  /\ objects["BookController"].controller = "built"
        /\ IF BookKwargsOk(kwargs)
              THEN /\ update_book(kwargs, failed)
                   /\ objects' = Sent("BookController")
                   /\ event' = AppOutcome("BookController.update_book", args,
                                          ControllerRaises(call'.raised), 1, "none", <<>>)
              ELSE /\ event' = AppOutcome("BookController.update_book", args,
                                          "TypeError", 0, "none", <<>>)
                   /\ UNCHANGED <<tables, call, refetch, deleted, objects>>
        /\ UNCHANGED result_table

\* books = self.repository.get_books_by_author(author_name)
\* if books is None: ...          (a list is never None)
\* return self.repository.get_books_by_author(author_name)
\* The repository is asked twice; the answer to the second call is returned.
\* No exception of the repository reaches the except clause (ReadRaises).
QueryController_get_books_by_author_name(author_name, failed1, failed2) ==
    /\ objects["QueryController"].controller = "built"
    /\ get_books_by_author(author_name, failed2)
    /\ objects' = Sent("QueryController")

\* return self.repository.list_all_members_by_book(book_name)
QueryController_list_all_members_by_book(book_name, failed1, failed2) ==
    /\ objects["QueryController"].controller = "built"
    /\ list_all_members_by_book(book_name, failed1, failed2)
    /\ objects' = Sent("QueryController")

\* ------------------------------------------------- src/view/query_view.py
\* The text of a QLineEdit is a sequence of characters.
Whitespace == {" ", "\t", "\n"}

RECURSIVE LStrip(_)
LStrip(text) ==
    IF text # <<>> /\ Head(text) \in Whitespace THEN LStrip(Tail(text)) ELSE text

RECURSIVE RStrip(_)
RStrip(text) ==
    IF text # <<>> /\ text[Len(text)] \in Whitespace
       THEN RStrip(SubSeq(text, 1, Len(text) - 1)) ELSE text

\* str.strip()
Strip(text) == RStrip(LStrip(text))

\* The str of a sequence of characters.
RECURSIVE Str(_)
Str(text) == IF text = <<>> THEN "" ELSE Head(text) \o Str(Tail(text))

\* if not author_name / if not book_name
Blank(text) == Strip(text) = <<>>

AuthorHeaders == <<"Book ID", "Title", "Publisher ID", "ISBN", "Pub Year">>

\* lambda book: [str(book.id), book.title, str(book.publisher_id), book.isbn, str(book.pub_year)]
AuthorFormatter(b) ==
    <<ToString(b.id), b.title, ToString(b.publisher_id), b.isbn, ToString(b.pub_year)>>

MemberHeaders ==
    <<"First Name", "Last Name", "Title", "Issue Date", "Due Date", "Return Date">>

\* lambda r: [r[0], r[1], r[2], str(r[3]), str(r[4]), str(r[5])]
MemberFormatter(r) == <<r[1], r[2], r[3], ToString(r[4]), ToString(r[5]), ToString(r[6])>>

PopulateRows_KeepsOld(old, rows) == old \o rows

\* self.result_table.setRowCount(0), then insertRow(row_index) per item.
PopulateRows(old, rows) == rows

\* populate_table(items, headers, data_formatter), with the rows already
\* formatted: the columns and header labels are set to headers, the old rows
\* are dropped and one row per item is inserted at the item's index.
populate_table(rows, headers) ==
    result_table' = [headers |-> headers, rows |-> PopulateRows(result_table.rows, rows)]

\* QMessageBox.warning(...); return
WarnAndReturn(op, text) ==
    /\ event' = AppOutcome(op, <<text>>, "none", 0, "warning", <<>>)
    /\ UNCHANGED <<tables, call, refetch, deleted, objects, result_table>>

QueryTab_execute_get_books_by_author(text, failed1, failed2) ==
    /\ objects["QueryController"].controller = "built"
    /\ IF Blank(text)
          THEN WarnAndReturn("QueryTab.execute_get_books_by_author", text)
          ELSE /\ QueryController_get_books_by_author_name(Str(Strip(text)), failed1, failed2)
               /\ populate_table([i \in DOMAIN call'.ret |-> AuthorFormatter(call'.ret[i])],
                                 AuthorHeaders)
               /\ event' = AppOutcome("QueryTab.execute_get_books_by_author", <<text>>,
                                      "none", 1, "none", call'.ret)

QueryTab_execute_list_all_members_by_book(text, failed1, failed2) ==
    /\ objects["QueryController"].controller = "built"
    /\ IF Blank(text)
          THEN WarnAndReturn("QueryTab.execute_list_all_members_by_book", text)
          ELSE /\ QueryController_list_all_members_by_book(Str(Strip(text)), failed1, failed2)
               /\ populate_table([i \in DOMAIN call'.ret |-> MemberFormatter(call'.ret[i])],
                                 MemberHeaders)
               /\ event' = AppOutcome("QueryTab.execute_list_all_members_by_book", <<text>>,
                                      "none", 1, "none", call'.ret)

\* What the user types into author_input and book_input.
AuthorTexts == {<<>>, <<" ">>, <<"\t", " ">>, <<"A">>, <<" ", "B", "\n">>}
BookTexts == {<<>>, <<" ", "\n">>, <<"t", "1">>, <<" ", "t", "2">>}

Writes ==
    \/ \E b \in CallerBooks(CallerIds), failed \in BOOLEAN : add_book(b, failed)
    \/ \E id \in BookIds, failed \in BOOLEAN : delete_book_by_id(id, failed)
    \/ \E b \in CallerBooks(BookIds), failed \in BOOLEAN : update_book(b, failed)

Reads ==
    \/ \E title \in Titles, failed \in BOOLEAN : list_book_by_name(title, failed)
    \/ \E failed \in BOOLEAN : fetchall_books(failed)
    \/ \E n \in AuthorNames, failed \in BOOLEAN : get_books_by_author(n, failed)
    \/ \E n \in AuthorNames, failed \in BOOLEAN : find_books_by_author_name(n, failed)
    \/ \E failed \in BOOLEAN : get_publisher(failed)
    \/ \E failed \in BOOLEAN : get_all_members(failed)
    \/ \E failed \in BOOLEAN : list_all_loan(failed)
    \/ \E title \in Titles, f1 \in BOOLEAN, f2 \in BOOLEAN :
          list_all_members_by_book(title, f1, f2)
    \/ \E failed \in BOOLEAN : list_members_borrowed_at_least_one_book(failed)

\* The Repository on its own, called directly.
Next == (Writes \/ Reads) /\ UNCHANGED appVars

Spec == Init /\ [][Next]_vars

\* The application: the controllers are built, each over its own connection,
\* and then called; the query tab runs over its QueryController.
InitApp ==
    /\ book \in {{r \in SeedBooks : r[1] <= n} : n \in 1..MaxBookId}
    /\ nextId = Cardinality(book) + 1
    /\ book_author = {<<1, 1>>, <<2, 1>>}
    /\ loan = {Loan1, Loan2, Loan3}
    /\ InitFixed

NextApp ==
    \/ \E connectFails \in BOOLEAN : BookController_init(connectFails)
    \/ \E connectFails \in BOOLEAN : QueryController_init(connectFails)
    \/ \E v \in BookValues, a \in AuthorNames, failed \in BOOLEAN :
          BookController_add_book(v[1], a, v[5], v[2], v[3], failed)
    \/ \E id \in BookIds, v \in BookValues, a \in AuthorNames, failed \in BOOLEAN :
          BookController_update_book(id, v[1], a, v[5], v[2], v[3], failed)
    \/ \E text \in AuthorTexts, f1 \in BOOLEAN, f2 \in BOOLEAN :
          QueryTab_execute_get_books_by_author(text, f1, f2)
    \/ \E text \in BookTexts, f1 \in BOOLEAN, f2 \in BOOLEAN :
          QueryTab_execute_list_all_members_by_book(text, f1, f2)

SpecApp == InitApp /\ [][NextApp]_vars

\* The queries over any store: some books present, some deleted, any set of
\* author links and of loans.
InitStore ==
    /\ book \in SUBSET StoreBooks
    /\ nextId = Cardinality(StoreBooks) + 1
    /\ book_author \in SUBSET {<<1, 1>>, <<1, 2>>, <<2, 1>>}
    /\ loan \in SUBSET {Loan1, Loan2, Loan3, Loan4}
    /\ InitFixed

NextStore == Reads /\ UNCHANGED appVars

SpecStore == InitStore /\ [][NextStore]_vars

\* ------------------------------------------------------------------ claims
IsRefetch(op) ==
    /\ call.op = "list_book_by_name"
    /\ refetch.op = op
    /\ call.args[1] = refetch.args[1].title

SameValues(x, b) ==
    /\ x.title = b.title
    /\ x.isbn = b.isbn
    /\ x.pub_year = b.pub_year
    /\ x.genre_id = b.genre_id
    /\ x.publisher_id = b.publisher_id

TitleCount(title) == Cardinality({r \in book : r[2] = title})

\* C1 as stated: after add_book(book) succeeds, list_book_by_name(book.title)
\* returns a Book with the inserted title, isbn, pub_year, genre_id and
\* publisher_id, whatever the store held before (read here in the claim's
\* favour: of a lookup whose query did not fail).
C1_RoundTripAnyStore ==
    (IsRefetch("add_book") /\ ~call.failed[1]) =>
        /\ call.ret # <<>>
        /\ SameValues(call.ret[1], refetch.args[1])

\* C1 amended: after add_book(book) succeeds, list_book_by_name(book.title),
\* when its query does not fail, returns a Book with that title; when no other
\* row has the title, the Book carries the inserted isbn, pub_year, genre_id
\* and publisher_id, and the id the storage assigned, not the caller's.
C1_RoundTrip ==
    (IsRefetch("add_book") /\ ~call.failed[1]) =>
        /\ call.ret # <<>>
        /\ call.ret[1].title = refetch.args[1].title
        /\ TitleCount(call.args[1]) = 1 =>
              /\ SameValues(call.ret[1], refetch.args[1])
              /\ call.ret[1].id = nextId - 1

C1_Witness ==
    /\ IsRefetch("add_book")
    /\ ~call.failed[1]
    /\ TitleCount(call.args[1]) = 1
    /\ call.ret # <<>>
    /\ call.ret[1].id # refetch.args[1].id

\* C2 as stated: after update_book(book) succeeds for an id of the store,
\* list_book_by_name(new title) returns the updated values for that id (read
\* here in the claim's favour: of a lookup whose query did not fail).
C2_RefetchUpdated ==
    (/\ IsRefetch("update_book")
     /\ \E r \in book : r[1] = refetch.args[1].id
     /\ ~call.failed[1]) =>
        call.ret = <<refetch.args[1]>>

\* C2 amended: after update_book(book) succeeds for an id of the store,
\* list_book_by_name(new title), when its query does not fail, returns a Book
\* with the new title; when no other row has that title, it is the row of that
\* id with the updated isbn, pub_year, genre_id and publisher_id.
C2_RefetchUpdatedUnique ==
    (/\ IsRefetch("update_book")
     /\ \E r \in book : r[1] = refetch.args[1].id
     /\ ~call.failed[1]) =>
        /\ call.ret # <<>>
        /\ call.ret[1].title = refetch.args[1].title
        /\ TitleCount(call.args[1]) = 1 => call.ret = <<refetch.args[1]>>

C2_Witness ==
    /\ IsRefetch("update_book")
    /\ ~call.failed[1]
    /\ TitleCount(call.args[1]) = 1
    /\ call.ret = <<refetch.args[1]>>
    /\ refetch.args[1].genre_id = 2
    /\ refetch.args[1].id = 1

BookReadOps ==
    {"fetchall_books", "list_book_by_name", "get_books_by_author", "find_books_by_author_name"}

\* C3: once delete_book_by_id(id) has succeeded, and until the storage assigns
\* that id to an inserted row, the store holds no book row with that id and no
\* read returns a Book with that id.
C3_DeletedStaysGone ==
    \A id \in deleted :
        /\ \A r \in book : r[1] # id
        /\ call.op \in BookReadOps => \A i \in DOMAIN call.ret : call.ret[i].id # id

C3_Witness ==
    /\ call.op = "list_book_by_name"
    /\ ~call.failed[1]
    /\ call.ret = <<>>
    /\ refetch.op = "delete_book_by_id"
    /\ refetch.args[1] < nextId
    /\ book # {}

\* C4: fetchall_books, when its query does not fail, returns one Book per row
\* of book, each book once.
C4_FetchAllOnePerBook ==
    (call.op = "fetchall_books" /\ ~call.failed[1]) =>
        /\ Len(call.ret) = Cardinality(book)
        /\ \A r \in book : \E i \in DOMAIN call.ret : call.ret[i].id = r[1]

\* C5: no read raises; a read of which a statement failed returns the empty
\* result; a read leaves every table as it was.
C5_ReadsDegradeToEmpty ==
    [][call'.op \in ReadOps =>
          /\ call'.raised = "none"
          /\ (\E i \in DOMAIN call'.failed : call'.failed[i]) => call'.ret = <<>>
          /\ tables' = tables]_vars

C5_Witness ==
    /\ call.op = "list_all_members_by_book"
    /\ call.failed = <<FALSE, TRUE>>
    /\ call.ret = <<>>
    /\ call.raised = "none"

\* C6: a write raises RuntimeError exactly when its statement failed, and
\* returns normally exactly when the statement ran.
C6_WritesRaiseOnFailure ==
    call.op \in WriteOps =>
        /\ call.failed[1] => call.raised = "RuntimeError"
        /\ ~call.failed[1] => call.raised = "none"

C6_Witness ==
    /\ call.op = "delete_book_by_id"
    /\ call.failed = <<TRUE>>
    /\ call.raised = "RuntimeError"

\* C7: list_book_by_name(title) raises nothing; it returns None when no row of
\* book has exactly that title; when the storage yields rows, they are the
\* rows with that title and the result is the first of them, field by field.
C7_FirstMatchOrNone ==
    call.op = "list_book_by_name" =>
        LET matching == {r \in book : r[2] = call.args[1]}
        IN  /\ call.raised = "none"
            /\ matching = {} => call.ret = <<>>
            /\ (matching # {} /\ ~call.failed[1]) =>
                  /\ {call.rows[i] : i \in DOMAIN call.rows} = matching
                  /\ Len(call.rows) = Cardinality(matching)
                  /\ call.ret = <<[id |-> call.rows[1][1], title |-> call.rows[1][2],
                                   isbn |-> call.rows[1][3], pub_year |-> call.rows[1][4],
                                   genre_id |-> call.rows[1][5],
                                   publisher_id |-> call.rows[1][6]]>>

C7_Witness ==
    /\ call.op = "list_book_by_name"
    /\ Len(call.rows) = 2
    /\ call.ret # <<>>
    /\ call.ret[1].id = 2
    /\ call.ret[1].id = call.rows[1][1]

\* C8: list_all_members_by_book(title) returns the empty sequence and raises
\* nothing when no row of book has the title or the title lookup failed, and
\* then it has sent the lookup only, never the join query.
C8_UnresolvedTitleIsEmpty ==
    (/\ call.op = "list_all_members_by_book"
     /\ \/ \A r \in book : r[2] # call.args[1]
        \/ call.failed[1]) =>
        /\ call.ret = <<>>
        /\ call.raised = "none"
        /\ Len(call.failed) = 1

C8_Witness ==
    /\ call.op = "list_all_members_by_book"
    /\ call.failed = <<TRUE>>
    /\ call.ret = <<>>
    /\ \E r \in book : r[2] = call.args[1] /\ \E c \in book_copy, l \in loan :
          c[2] = r[1] /\ l[2] = c[1]

LoansOf(member_id) == {l \in loan : l[3] = member_id}

\* C9: list_members_borrowed_at_least_one_book returns no member without a
\* loan row; when its query does not fail it returns every member with a loan
\* row exactly once, with that member's id and names.
C9_BorrowersOnceEach ==
    call.op = "list_members_borrowed_at_least_one_book" =>
        /\ \A i \in DOMAIN call.ret : LoansOf(call.ret[i][1]) # {}
        /\ ~call.failed[1] =>
              /\ \A m \in members : LoansOf(m[1]) # {} =>
                    Cardinality({i \in DOMAIN call.ret : call.ret[i][1] = m[1]}) = 1
              /\ \A i \in DOMAIN call.ret :
                    \E m \in members : call.ret[i] = <<m[1], m[2], m[3]>>

C9_Witness ==
    /\ call.op = "list_members_borrowed_at_least_one_book"
    /\ ~call.failed[1]
    /\ Len(call.ret) = 1
    /\ \E m \in members : Cardinality(LoansOf(m[1])) = 2
    /\ \E m \in members : LoansOf(m[1]) = {}

\* C10: an update_book(book) whose statement runs and whose book.id matches
\* no row raises nothing and leaves book as it was; no update_book inserts or
\* removes a row, or changes a row whose id is not book.id.
C10_UpdateFrame ==
    [][call'.op = "update_book" =>
          LET b == call'.args[1]
          IN  /\ (~call'.failed[1] /\ \A r \in book : r[1] # b.id) =>
                    (call'.raised = "none" /\ book' = book)
              /\ {r[1] : r \in book'} = {r[1] : r \in book}
              /\ \A r \in book : r[1] # b.id => r \in book']_vars

C10_Witness ==
    /\ call.op = "update_book"
    /\ call.failed = <<FALSE>>
    /\ call.raised = "none"
    /\ book # {}
    /\ \A r \in book : r[1] # call.args[1].id

\* C11: a controller whose Repository could not connect does not exist, nor
\* does that Repository; its construction ended in RuntimeError and no
\* statement was ever sent on that connection.
C11_FailedConnectAborts ==
    \A c \in Controllers :
        objects[c].conn = "failed" =>
            /\ ~objects[c].repository
            /\ objects[c].controller = "aborted"
            /\ ~objects[c].sent
            /\ event.op = c \o ".__init__" => event.raised = "RuntimeError"

C11_Witness ==
    /\ objects["QueryController"].conn = "failed"
    /\ objects["BookController"].controller = "built"
    /\ event.op = "QueryController.__init__"
    /\ event.raised = "RuntimeError"

\* C12: a BookController.add_book or update_book that does not end in the
\* domain error has written the book with genre_id = 1 and the caller's title,
\* isbn, year and publisher id (update_book: when a row has the id).
C12_ControllerWritesGenre1 ==
    /\ (event.op = "BookController.add_book" /\ event.raised # "RuntimeError") =>
          <<nextId - 1, event.args[1], event.args[4], event.args[5], 1, event.args[3]>>
              \in book
    /\ (/\ event.op = "BookController.update_book"
        /\ event.raised # "RuntimeError"
        /\ \E r \in book : r[1] = event.args[1]) =>
          <<event.args[1], event.args[2], event.args[5], event.args[6], 1, event.args[4]>>
              \in book

\* C13: BookController.add_book and update_book either return after exactly
\* one repository write or raise RuntimeError; nothing else escapes them.
C13_OnlyDomainErrorEscapes ==
    event.op \in {"BookController.add_book", "BookController.update_book"} =>
        \/ event.raised = "none" /\ event.calls = 1
        \/ event.raised = "RuntimeError"

\* The loans of a set of books, each with its member, copy and book.
LoansOfBooks(ids) ==
    {x \in members \X loan \X book_copy \X book :
        x[1][1] = x[2][3] /\ x[2][2] = x[3][1] /\ x[3][2] = x[4][1] /\ x[4][1] \in ids}

AnsweredMembersByBook ==
    /\ call.op = "list_all_members_by_book"
    /\ call.failed = <<FALSE, FALSE>>

\* C14 as stated: when no query fails, list_all_members_by_book(title) returns
\* one row per loan of a copy of any book whose title is the argument.
C14_AllBooksOfTitle ==
    AnsweredMembersByBook =>
        Len(call.ret) = Cardinality(LoansOfBooks({r[1] : r \in {x \in book : x[2] = call.args[1]}}))

\* C14 amended: when no query fails, list_all_members_by_book(title) returns
\* one row per loan of a copy of one book whose title is the argument (the
\* row the title lookup returned), each with the member's names, the title
\* and the loan's dates; so all loans of that title when one row has it, and
\* never a row of another title.
C14_OneBookOfTitle ==
    AnsweredMembersByBook =>
        /\ \E b \in {x \in book : x[2] = call.args[1]} :
              /\ Len(call.ret) = Cardinality(LoansOfBooks({b[1]}))
              /\ \A x \in LoansOfBooks({b[1]}) :
                    \E i \in DOMAIN call.ret :
                        call.ret[i] = <<x[1][2], x[1][3], b[2], x[2][6], x[2][7], x[2][8]>>
        /\ \A i \in DOMAIN call.ret : call.ret[i][3] = call.args[1]

C14_Witness ==
    /\ AnsweredMembersByBook
    /\ Len(call.ret) = 2
    /\ Cardinality({x \in book : x[2] = call.args[1]}) = 1
    /\ \E r \in book : r[2] # call.args[1] /\ LoansOfBooks({r[1]}) # {}

ViewOps ==
    {"QueryTab.execute_get_books_by_author", "QueryTab.execute_list_all_members_by_book"}

\* C15: the author query and the members-by-book query of the query tab, on
\* an input that is empty or all whitespace, show a warning, call nothing
\* and leave the table as it was; on any other input they leave the table
\* with the query's headers and one row per returned item, in the order
\* returned.
C15_BlankInputOnlyWarns ==
    [][event'.op \in ViewOps =>
          IF \A i \in DOMAIN event'.args[1] : event'.args[1][i] \in {" ", "\t", "\n"}
             THEN /\ event'.dialog = "warning"
                  /\ event'.calls = 0
                  /\ result_table' = result_table
                  /\ call' = call
                  /\ objects' = objects
                  /\ tables' = tables
             ELSE /\ event'.dialog = "none"
                  /\ Len(result_table'.rows) = Len(event'.ret)
                  /\ IF event'.op = "QueryTab.execute_get_books_by_author"
                        THEN /\ Len(result_table'.headers) = 5
                             /\ \A i \in DOMAIN event'.ret :
                                   LET b == event'.ret[i]
                                   IN  result_table'.rows[i] =
                                           <<ToString(b.id), b.title, ToString(b.publisher_id),
                                             b.isbn, ToString(b.pub_year)>>
                        ELSE /\ Len(result_table'.headers) = 6
                             /\ \A i \in DOMAIN event'.ret :
                                   LET r == event'.ret[i]
                                   IN  result_table'.rows[i] =
                                           <<r[1], r[2], r[3], ToString(r[4]),
                                             ToString(r[5]), ToString(r[6])>>]_vars

C15_Witness ==
    /\ event.op = "QueryTab.execute_list_all_members_by_book"
    /\ event.args[1] # <<>>
    /\ event.dialog = "warning"
    /\ Len(result_table.rows) = 2
    /\ Len(result_table.headers) = 5

====
